---------------------------- MODULE Spec2Model ----------------------------
(***************************************************************************)
(* A model of coalib/bearlib/abstractions/Linter.py: the Linter decorator  *)
(* (validation and sealing of the options), and the run() of the bear it   *)
(* produces (config file, argument creation, command execution, stream     *)
(* selection, and the lazily consumed result generator in pattern mode and *)
(* in diff mode).                                                          *)
(*                                                                         *)
(* Python strings that the code inspects character by character (tool      *)
(* output, captured groups, file lines) are sequences of one-character     *)
(* strings.  Dictionary keys of `options` are TLA+ strings.  An optional   *)
(* dictionary entry is a sequence of length 0 (key absent) or 1.           *)
(***************************************************************************)
EXTENDS Integers, Sequences, FiniteSets, TLC

VARIABLES
    pc,           \* position of the program, see Init and the actions
    args,         \* the arguments of the Linter(...) call
    options,      \* the `options` dict closed over by the produced class
    error,        \* the exception that ended construction, run() or the generator
    file,         \* run(): the `file` argument (sequence of lines)
    content,      \* run(): what generate_config returned (<<>> is None)
    config_file,  \* run(): what _create_config yielded (<<>> is None)
    tmpfiles,     \* the temporary files that exist on disk
    stdin,        \* what was sent to the process as stdin (<<>> is None)
    stdout,       \* stdout text of the executed command
    stderr,       \* stderr text of the executed command
    exit_status,  \* exit status of the executed command (-1: none yet)
    output,       \* the text _grab_output selected
    pending,      \* items the returned generator has not converted yet
    results       \* the Results the generator has yielded so far

vars == <<pc, args, options, error, file, content, config_file, tmpfiles, stdin,
          stdout, stderr, exit_status, output, pending, results>>

---------------------------------------------------------------------------
(* Python values *)

PyNone == [t |-> "none", s |-> <<>>, n |-> 0]
PyStr(x) == [t |-> "str", s |-> x, n |-> 0]
PyInt(k) == [t |-> "int", s |-> <<>>, n |-> k]
PyBool(b) == [t |-> "bool", s |-> <<>>, n |-> IF b THEN 1 ELSE 0]
\* `self`, the bear instance, where the code passes it as an origin
PySelf == [t |-> "self", s |-> <<>>, n |-> 0]

\* bool(v) for the values above
Truthy(v) ==
    CASE v.t = "none" -> FALSE
      [] v.t = "str" -> v.s # <<>>
      [] v.t = "self" -> TRUE
      [] OTHER -> v.n # 0

Digits == {"0", "1", "2", "3"}
Lower == {"e", "r", "o", "n", "t", "i", "f", "a", "b"}
Upper == {"X"}
WordChars == Digits \cup Lower \cup Upper

DigitValue(c) == CASE c = "0" -> 0 [] c = "1" -> 1 [] c = "2" -> 2 [] OTHER -> 3

RECURSIVE DecimalValue(_)
DecimalValue(s) ==
    IF s = <<>> THEN 0
    ELSE 10 * DecimalValue(SubSeq(s, 1, Len(s) - 1)) + DigitValue(s[Len(s)])

\* int(v): the integer, or the exception Python raises
IntOf(v) ==
    CASE v.t = "int" -> [ok |-> TRUE, n |-> v.n, exc |-> ""]
      [] v.t = "bool" -> [ok |-> TRUE, n |-> v.n, exc |-> ""]
      [] v.t = "str" ->
            IF v.s # <<>> /\ \A i \in 1..Len(v.s) : v.s[i] \in Digits
            THEN [ok |-> TRUE, n |-> DecimalValue(v.s), exc |-> ""]
            ELSE [ok |-> FALSE, n |-> 0, exc |-> "ValueError"]
      [] OTHER -> [ok |-> FALSE, n |-> 0, exc |-> "TypeError"]

\* str(v) inside "{} ({})".format(...)
StrOf(v) ==
    CASE v.t = "str" -> v.s
      [] v.t = "none" -> <<"N", "o", "n", "e">>
      [] OTHER -> <<"?">>

RESULT_SEVERITY == [INFO |-> 0, NORMAL |-> 1, MAJOR |-> 2]
\* RESULT_SEVERITY.reverse, the dict from the values back to the names
SeverityValues == {RESULT_SEVERITY.INFO, RESULT_SEVERITY.NORMAL, RESULT_SEVERITY.MAJOR}

S_error == <<"e", "r", "r", "o", "r">>
S_warning == <<"w", "a", "r", "n", "i", "n", "g">>
S_info == <<"i", "n", "f", "o">>
S_note == <<"n", "o", "t", "e">>
S_Inconsistency == <<"I", "n", "c", "o", "n", "s", "i", "s", "t", "e", "n", "c", "y", " ",
                     "f", "o", "u", "n", "d", ".">>
\* klass.__name__, the name of the decorated class
KlassName == <<"X", "L", "i", "n", "t", "B", "e", "a", "r">>
Executable == <<"x", "l", "i", "n", "t">>
Filename == <<"f">>

---------------------------------------------------------------------------
(* Compiled regular expressions.  A pattern is a sequence of items, each   *)
(* one character class with a repetition ("one", "opt": ?, "plus": +),     *)
(* wrapped in a named group when name # "".  Every pattern used below has  *)
(* an item that is not optional, so a match is never empty.                *)

Item(name, cls, rep) == [name |-> name, cls |-> cls, rep |-> rep]

\* re.compile(...).groupindex
GroupIndex(items) == {items[k].name : k \in 1..Len(items)} \ {""}

NoMatch == [ok |-> FALSE, end |-> 0, groups |-> <<>>]

Bind(groups, name, val) ==
    IF name = "" THEN groups ELSE [groups EXCEPT ![name] = PyStr(val)]

RECURSIVE RunLen(_, _, _)
\* the number of consecutive characters of cls in text from position i
RunLen(cls, text, i) ==
    IF i <= Len(text) /\ text[i] \in cls THEN 1 + RunLen(cls, text, i + 1) ELSE 0

RECURSIVE MatchItems(_, _, _, _, _)
RECURSIVE TryPlus(_, _, _, _, _, _)
\* the match of items[k..] at position i that a backtracking matcher finds first
MatchItems(items, k, text, i, groups) ==
    IF k > Len(items) THEN [ok |-> TRUE, end |-> i, groups |-> groups]
    ELSE LET it == items[k]
             here == i <= Len(text) /\ text[i] \in it.cls
             take == MatchItems(items, k + 1, text, i + 1,
                                Bind(groups, it.name, <<text[i]>>))
             skip == MatchItems(items, k + 1, text, i, groups)
         IN  CASE it.rep = "one" -> IF here THEN take ELSE NoMatch
               [] it.rep = "opt" -> IF here /\ take.ok THEN take ELSE skip
               [] OTHER -> TryPlus(items, k, text, i, RunLen(it.cls, text, i), groups)

TryPlus(items, k, text, i, n, groups) ==
    IF n = 0 THEN NoMatch
    ELSE LET r == MatchItems(items, k + 1, text, i + n,
                             Bind(groups, items[k].name, SubSeq(text, i, i + n - 1)))
         IN  IF r.ok THEN r ELSE TryPlus(items, k, text, i, n - 1, groups)

RECURSIVE Scan(_, _, _)
Scan(items, text, i) ==
    IF i > Len(text) THEN <<>>
    ELSE LET m == MatchItems(items, 1, text, i,
                             [g \in GroupIndex(items) |-> PyNone])
         IN  IF m.ok /\ m.end > i
             THEN <<[start |-> i, end |-> m.end, groups |-> m.groups]>>
                  \o Scan(items, text, m.end)
             ELSE Scan(items, text, i + 1)

\* list(regex.finditer(text)); each match carries its groupdict()
FindIter(regex, text) == Scan(regex.items, text, 1)

---------------------------------------------------------------------------
(* The decorator call Linter(executable, provides_correction, use_stdin,   *)
(* use_stderr, config_suffix, **options).                                  *)

OptionKeys == {"executable", "provides_correction", "use_stdin", "use_stderr",
               "config_suffix", "output_regex", "severity_map", "diff_severity",
               "diff_message", "timeout"}

NoError == [type |-> "", key |-> ""]
Raise(type, key) == [type |-> type, key |-> key]

Has(o, k) == Len(o[k]) > 0
Keys(o) == {k \in OptionKeys : Has(o, k)}

EmptyOptions == [k \in OptionKeys |-> <<>>]

Dict(m) == [isdict |-> TRUE, map |-> m]
NotADict == [isdict |-> FALSE, map |-> <<>>]

DefaultSeverityMap ==
    Dict(S_error :> RESULT_SEVERITY.MAJOR
         @@ S_warning :> RESULT_SEVERITY.NORMAL
         @@ S_info :> RESULT_SEVERITY.INFO)

\* the body's first five assignments: the named parameters join **options
SealFlags(a) ==
    [executable |-> <<PyStr(Executable)>>,
     provides_correction |-> <<PyBool(a.provides_correction)>>,
     use_stdin |-> <<PyBool(a.use_stdin)>>,
     use_stderr |-> <<PyBool(a.use_stderr)>>,
     config_suffix |-> <<PyBool(a.use_stderr)>>,
     output_regex |-> a.kw.output_regex,
     severity_map |-> a.kw.severity_map,
     diff_severity |-> a.kw.diff_severity,
     diff_message |-> a.kw.diff_message,
     timeout |-> a.kw.timeout]

BaseAllowed == {"executable", "provides_correction", "use_stdin", "use_stderr",
                "config_suffix"}

\* the branch taken when options["provides_correction"] is true
CorrectionSetup(o) ==
    LET o1 == IF ~Has(o, "diff_severity")
              THEN [o EXCEPT !.diff_severity = <<PyInt(RESULT_SEVERITY.NORMAL)>>]
              ELSE o
        o2 == IF ~Has(o1, "diff_message")
              THEN [o1 EXCEPT !.diff_message = <<PyStr(S_Inconsistency)>>]
              ELSE o1
    IN  IF Has(o, "diff_severity")
           /\ ~(o.diff_severity[1].t = "int" /\ o.diff_severity[1].n \in SeverityValues)
        THEN [err |-> Raise("TypeError", ""), options |-> o]
        ELSE IF Has(o1, "diff_message") /\ o1.diff_message[1].t # "str"
        THEN [err |-> Raise("TypeError", ""), options |-> o1]
        ELSE [err |-> NoError, options |-> o2]

\* a buggy variant: the default map is installed whatever the pattern declares
SeverityMapSetupAlways(o) ==
    IF Has(o, "severity_map")
    THEN IF "severity" \notin GroupIndex(o.output_regex[1].items)
         THEN [err |-> Raise("ValueError", ""), options |-> o]
         ELSE IF ~o.severity_map[1].isdict
         THEN [err |-> Raise("TypeError", ""), options |-> o]
         ELSE [err |-> NoError, options |-> o]
    ELSE [err |-> NoError,
          options |-> [o EXCEPT !.severity_map = <<DefaultSeverityMap>>]]

\* "Don't setup severity_map if one is provided by user or if it's not used
\* inside the output_regex."
SeverityMapSetup(o) ==
    IF Has(o, "severity_map")
    THEN IF "severity" \notin GroupIndex(o.output_regex[1].items)
         THEN [err |-> Raise("ValueError", ""), options |-> o]
         ELSE IF ~o.severity_map[1].isdict
         THEN [err |-> Raise("TypeError", ""), options |-> o]
         ELSE [err |-> NoError, options |-> o]
    ELSE IF "severity" \in GroupIndex(o.output_regex[1].items)
         THEN [err |-> NoError,
               options |-> [o EXCEPT !.severity_map = <<DefaultSeverityMap>>]]
         ELSE [err |-> NoError, options |-> o]

\* the branch taken when options["provides_correction"] is false
PatternSetup(o) ==
    IF ~Has(o, "output_regex")
    THEN [err |-> Raise("ValueError", ""), options |-> o]
    ELSE IF ~o.output_regex[1].valid
    THEN [err |-> Raise("re.error", ""), options |-> o]
    ELSE SeverityMapSetup(o)

\* a buggy variant: the allowed set does not depend on the mode
AllowedOptionsAnyMode(o) ==
    BaseAllowed \cup {"diff_severity", "diff_message", "output_regex", "severity_map"}

AllowedOptions(o) ==
    IF Truthy(o.provides_correction[1])
    THEN BaseAllowed \cup {"diff_severity", "diff_message"}
    ELSE BaseAllowed \cup {"output_regex", "severity_map"}

SuperfluousOptions(o) == Keys(o) \ AllowedOptions(o)

\* The outcomes of the call: the sealed options, or the exception raised.
\* superfluous_options.pop() names any one of the superfluous keys.
Linter(a) ==
    LET o == SealFlags(a)
        r == IF Truthy(o.provides_correction[1])
             THEN CorrectionSetup(o) ELSE PatternSetup(o)
    IN  IF r.err.type # ""
        THEN {[ok |-> FALSE, options |-> EmptyOptions, error |-> r.err]}
        ELSE IF SuperfluousOptions(r.options) # {}
        THEN {[ok |-> FALSE, options |-> EmptyOptions,
               error |-> Raise("ValueError", k)] : k \in SuperfluousOptions(r.options)}
        ELSE {[ok |-> TRUE, options |-> r.options, error |-> NoError]}

---------------------------------------------------------------------------
(* Pattern mode: one Result per match. *)

Get(groups, name, default) == IF name \in DOMAIN groups THEN groups[name] ELSE default

Failed(exc, groups) == [ok |-> FALSE, exc |-> exc, groups |-> groups]
Done(groups) == [ok |-> TRUE, exc |-> "", groups |-> groups]

\* "Pre process the groups": the severity label is replaced by its mapped value
SeverityStep(o, groups) ==
    IF ~Has(o, "severity_map") THEN Failed("KeyError", groups)
    ELSE IF /\ o.severity_map[1].isdict
            /\ "severity" \in DOMAIN groups
            /\ groups["severity"].t = "str"
            /\ groups["severity"].s \in DOMAIN o.severity_map[1].map
    THEN Done([groups EXCEPT
                 !["severity"] = PyInt(o.severity_map[1].map[groups["severity"].s])])
    ELSE Done(groups)

NumericVariables == <<"line", "column", "end_line", "end_column">>

RECURSIVE NumericStep(_, _)
\* for variable in NumericVariables[k..]: groups[variable] = int(groups[variable])
NumericStep(groups, k) ==
    IF k > Len(NumericVariables) THEN Done(groups)
    ELSE LET v == NumericVariables[k]
         IN  IF v \in DOMAIN groups /\ Truthy(groups[v])
             THEN LET r == IntOf(groups[v])
                  IN  IF r.ok
                      THEN NumericStep([groups EXCEPT ![v] = PyInt(r.n)], k + 1)
                      ELSE Failed(r.exc, groups)
             ELSE NumericStep(groups, k + 1)

FormatOrigin(v) == PyStr(KlassName \o <<" ", "(">> \o StrOf(v) \o <<")">>)

OriginStep(groups) ==
    IF "origin" \in DOMAIN groups
    THEN [groups EXCEPT !["origin"] = FormatOrigin(groups["origin"])]
    ELSE groups

NoResult ==
    [origin |-> PyNone, message |-> PyNone, file |-> <<>>, severity |-> 0,
     line |-> PyNone, column |-> PyNone, end_line |-> PyNone,
     end_column |-> PyNone, diffs |-> <<>>]

\* Result.from_values(origin=groups.get("origin", self), ...)
FromValues(groups, filename) ==
    LET sev == IntOf(Get(groups, "severity", PyInt(RESULT_SEVERITY.NORMAL)))
    IN  IF ~sev.ok THEN [ok |-> FALSE, exc |-> sev.exc, result |-> NoResult]
        ELSE [ok |-> TRUE, exc |-> "",
              result |-> [origin |-> Get(groups, "origin", PySelf),
                          message |-> Get(groups, "message", PyStr(<<>>)),
                          file |-> filename,
                          severity |-> sev.n,
                          line |-> Get(groups, "line", PyNone),
                          column |-> Get(groups, "column", PyNone),
                          end_line |-> Get(groups, "end_line", PyNone),
                          end_column |-> Get(groups, "end_column", PyNone),
                          diffs |-> <<>>]]

\* _convert_output_regex_match_to_result(match, filename)
ConvertMatch(o, match, filename) ==
    LET s1 == SeverityStep(o, match.groups)
        s2 == NumericStep(s1.groups, 1)
    IN  IF ~s1.ok THEN [ok |-> FALSE, exc |-> s1.exc, result |-> NoResult]
        ELSE IF ~s2.ok THEN [ok |-> FALSE, exc |-> s2.exc, result |-> NoResult]
        ELSE FromValues(OriginStep(s2.groups), filename)

---------------------------------------------------------------------------
(* Diff mode: one Result per hunk of the diff between `file` and the       *)
(* corrected output.                                                       *)

RECURSIVE SplitLines(_)
\* str.splitlines(keepends=True), for texts whose only line break is "\n"
SplitLines(s) ==
    IF s = <<>> THEN <<>>
    ELSE LET brk == {k \in 1..Len(s) : s[k] = "\n"}
         IN  IF brk = {} THEN <<s>>
             ELSE LET k == CHOOSE k \in brk : \A j \in brk : k <= j
                  IN  <<SubSeq(s, 1, k)>> \o SplitLines(SubSeq(s, k + 1, Len(s)))

Max(x, y) == IF x >= y THEN x ELSE y

RECURSIVE LcsLen(_, _, _, _)
\* the length of a longest common subsequence of a[i..] and b[j..]
LcsLen(a, b, i, j) ==
    IF i > Len(a) \/ j > Len(b) THEN 0
    ELSE IF a[i] = b[j] THEN 1 + LcsLen(a, b, i + 1, j + 1)
    ELSE Max(LcsLen(a, b, i + 1, j), LcsLen(a, b, i, j + 1))

NoHunk == [active |-> FALSE, start |-> 0, dels |-> 0, repl |-> <<>>]
Close(h) == IF h.active THEN <<[start |-> h.start, dels |-> h.dels, repl |-> h.repl]>>
            ELSE <<>>
Open(h, i) == IF h.active THEN h ELSE [NoHunk EXCEPT !.active = TRUE, !.start = i]

RECURSIVE SplitDiff(_, _, _, _, _)
\* Diff.from_string_arrays(a, b).split_diff(): the maximal runs of changed
\* lines, each with the span of `a` it covers (start, dels) and the lines of
\* `b` that replace that span
SplitDiff(a, b, i, j, h) ==
    IF i > Len(a) /\ j > Len(b) THEN Close(h)
    ELSE IF i <= Len(a) /\ j <= Len(b) /\ a[i] = b[j]
    THEN Close(h) \o SplitDiff(a, b, i + 1, j + 1, NoHunk)
    ELSE IF j > Len(b) \/ (i <= Len(a) /\ LcsLen(a, b, i + 1, j) >= LcsLen(a, b, i, j + 1))
    THEN SplitDiff(a, b, i + 1, j, [Open(h, i) EXCEPT !.dels = @ + 1])
    ELSE SplitDiff(a, b, i, j + 1, [Open(h, i) EXCEPT !.repl = Append(@, b[j])])

\* Result(self, options["diff_message"], affected_code=(diff.range(filename),),
\*        diffs={filename: diff}, severity=options["diff_severity"])
DiffResult(o, diff, filename) ==
    [origin |-> PySelf, message |-> o.diff_message[1], file |-> filename,
     severity |-> o.diff_severity[1].n,
     line |-> PyInt(diff.start), column |-> PyNone,
     end_line |-> PyInt(diff.start + diff.dels - 1), end_column |-> PyNone,
     diffs |-> <<diff>>]

---------------------------------------------------------------------------
(* The methods of the produced class. *)

\* a buggy variant: stdout whatever use_stderr says
GrabOutputStdout(o, out, err) == out

\* _grab_output(stdout, stderr)
GrabOutput(o, out, err) == IF Truthy(o.use_stderr[1]) THEN err ELSE out

\* _pass_file_as_stdin_if_needed(file)
PassFileAsStdinIfNeeded(o, f) == IF Truthy(o.use_stdin[1]) THEN <<f>> ELSE <<>>

\* a buggy variant: the corrected output is split without its line ends
RECURSIVE SplitLinesNoEnds(_)
SplitLinesNoEnds(s) ==
    IF s = <<>> THEN <<>>
    ELSE LET brk == {k \in 1..Len(s) : s[k] = "\n"}
         IN  IF brk = {} THEN <<s>>
             ELSE LET k == CHOOSE k \in brk : \A j \in brk : k <= j
                  IN  <<SubSeq(s, 1, k - 1)>> \o SplitLinesNoEnds(SubSeq(s, k + 1, Len(s)))

ProcessOutputNoEnds(o, out, filename, f) ==
    IF Truthy(o.provides_correction[1])
    THEN SplitDiff(f, SplitLinesNoEnds(out), 1, 1, NoHunk)
    ELSE FindIter(o.output_regex[1], out)

\* _process_output(output, filename, file): what the generator iterates over
ProcessOutput(o, out, filename, f) ==
    IF Truthy(o.provides_correction[1])
    THEN SplitDiff(f, SplitLines(out), 1, 1, NoHunk)
    ELSE FindIter(o.output_regex[1], out)

\* the body of the generator's loop for one item
YieldResult(o, item, filename) ==
    IF Truthy(o.provides_correction[1])
    THEN [ok |-> TRUE, exc |-> "", result |-> DiffResult(o, item, filename)]
    ELSE ConvertMatch(o, item, filename)

\* make_temp(suffix=...): tempfile.mkstemp joins prefix, name and suffix as
\* strings, which raises TypeError for a suffix that is no string
MakeTemp(suffix) ==
    IF suffix.t = "str"
    THEN [ok |-> TRUE, exc |-> "", path |-> 1, suffix |-> suffix.s]
    ELSE [ok |-> FALSE, exc |-> "TypeError", path |-> 0, suffix |-> <<>>]

\* leaving `with self._create_config(...)`: make_temp removes its file
ExitConfig(files, cfg) == {t \in files : cfg = <<>> \/ t.path # cfg[1]}

---------------------------------------------------------------------------
(* The state machine. *)

Opt(S) == {<<>>} \cup {<<v>> : v \in S}

NoArgs ==
    [provides_correction |-> FALSE, use_stdin |-> FALSE, use_stderr |-> FALSE,
     config_suffix |-> <<>>,
     kw |-> [output_regex |-> <<>>, severity_map |-> <<>>, diff_severity |-> <<>>,
             diff_message |-> <<>>, timeout |-> <<>>]]

Init ==
    /\ pc = "start"
    /\ args = NoArgs
    /\ options = EmptyOptions
    /\ error = NoError
    /\ file = <<>>
    /\ content = <<>>
    /\ config_file = <<>>
    /\ tmpfiles = {}
    /\ stdin = <<>>
    /\ stdout = <<>>
    /\ stderr = <<>>
    /\ exit_status = -1
    /\ output = <<>>
    /\ pending = <<>>
    /\ results = <<>>

\* @Linter(...) applied to a class: the options are validated and sealed
Construct(ArgSet) ==
    /\ pc = "start"
    /\ \E a \in ArgSet : \E r \in Linter(a) :
          /\ args' = a
          /\ options' = r.options
          /\ error' = r.error
          /\ pc' = IF r.ok THEN "sealed" ELSE "ctor_failed"
    /\ UNCHANGED <<file, content, config_file, tmpfiles, stdin, stdout, stderr,
                   exit_status, output, pending, results>>

\* run() enters `with self._create_config(filename, file, **kwargs)`:
\* generate_config returns None or the content of the config file
CreateConfig(Files, Contents) ==
    /\ pc = "sealed"
    /\ \E f \in Files : \E c \in Opt(Contents) :
          LET tmp == MakeTemp(options.config_suffix[1])
          IN  /\ file' = f
              /\ content' = c
              /\ IF c = <<>>
                 THEN /\ pc' = "in_with"
                      /\ UNCHANGED <<config_file, tmpfiles, error>>
                 ELSE IF ~tmp.ok
                 THEN /\ pc' = "run_raised"
                      /\ error' = Raise(tmp.exc, "")
                      /\ UNCHANGED <<config_file, tmpfiles>>
                 ELSE /\ pc' = "in_with"
                      /\ tmpfiles' = tmpfiles \cup
                            {[path |-> tmp.path, suffix |-> tmp.suffix,
                              content |-> c[1]]}
                      /\ config_file' = <<tmp.path>>
                      /\ UNCHANGED error
    /\ UNCHANGED <<args, options, stdin, stdout, stderr, exit_status, output,
                   pending, results>>

\* create_arguments(filename, file, config_file, **kwargs) returns or raises
CreateArguments ==
    /\ pc = "in_with"
    /\ \E raises \in BOOLEAN :
          IF raises
          THEN /\ pc' = "run_raised"
               /\ error' = Raise("Exception", "")
               /\ tmpfiles' = ExitConfig(tmpfiles, config_file)
          ELSE /\ pc' = "args_built"
               /\ UNCHANGED <<error, tmpfiles>>
    /\ UNCHANGED <<args, options, file, content, config_file, stdin, stdout, stderr,
                   exit_status, output, pending, results>>

\* _execute_command cannot start the process: run() raises
ExecuteFails ==
    /\ pc = "args_built"
    /\ stdin' = PassFileAsStdinIfNeeded(options, file)
    /\ pc' = "run_raised"
    /\ error' = Raise("OSError", "")
    /\ tmpfiles' = ExitConfig(tmpfiles, config_file)
    /\ UNCHANGED <<args, options, file, content, config_file, stdout, stderr,
                   exit_status, output, pending, results>>

\* _execute_command returns (stdout, stderr); run() selects the output,
\* returns the generator of _process_output and leaves the `with`
ExecuteCommand(Outs, Errs) ==
    /\ pc = "args_built"
    /\ \E so \in Outs : \E se \in Errs : \E ex \in {0, 1} :
          /\ stdin' = PassFileAsStdinIfNeeded(options, file)
          /\ stdout' = so
          /\ stderr' = se
          /\ exit_status' = ex
          /\ output' = GrabOutput(options, so, se)
          /\ pending' = ProcessOutput(options, GrabOutput(options, so, se),
                                      Filename, file)
    /\ tmpfiles' = ExitConfig(tmpfiles, config_file)
    /\ pc' = "run_returned"
    /\ UNCHANGED <<args, options, error, file, content, config_file, results>>

\* the caller asks the generator for its next Result
NextResult ==
    /\ pc = "run_returned"
    /\ IF pending = <<>>
       THEN /\ pc' = "consumed"
            /\ UNCHANGED <<error, pending, results>>
       ELSE LET r == YieldResult(options, Head(pending), Filename)
            IN  IF r.ok
                THEN /\ results' = Append(results, r.result)
                     /\ pending' = Tail(pending)
                     /\ UNCHANGED <<pc, error>>
                ELSE /\ pc' = "gen_raised"
                     /\ error' = Raise(r.exc, "")
                     /\ UNCHANGED <<pending, results>>
    /\ UNCHANGED <<args, options, file, content, config_file, tmpfiles, stdin, stdout,
                   stderr, exit_status, output>>

---------------------------------------------------------------------------
(* The inputs the specifications draw from. *)

MaxWords == 3
MaxLines == 3

RECURSIVE Texts(_, _)
\* the concatenations of at most n words of W
Texts(W, n) ==
    IF n = 0 THEN {<<>>}
    ELSE LET T == Texts(W, n - 1) IN T \cup {t \o w : t \in T, w \in W}

\* (?P<line>\d+):(?P<message>\w+)
RxPlain ==
    [valid |-> TRUE,
     items |-> <<Item("line", Digits, "plus"), Item("", {":"}, "one"),
                 Item("message", WordChars, "plus")>>]
\* (?P<origin>[A-Z])?(?P<severity>[a-z0-9]+)
RxSeverity ==
    [valid |-> TRUE,
     items |-> <<Item("origin", Upper, "opt"),
                 Item("severity", Lower \cup Digits, "plus")>>]
\* (?P<line>\w+):(?P<severity>[a-z]+)
RxLine ==
    [valid |-> TRUE,
     items |-> <<Item("line", WordChars, "plus"), Item("", {":"}, "one"),
                 Item("severity", Lower, "plus")>>]
\* a string re.compile rejects
RxInvalid == [valid |-> FALSE, items |-> <<>>]

CustomSeverityMap == Dict(S_note :> RESULT_SEVERITY.INFO)
S_fix == <<"f", "i", "x">>
ConfigContents == {<<"c">>}

ArgsOver(Flags, Suffixes, Regexes, Maps, Severities, Messages, Others) ==
    [provides_correction : Flags.provides_correction,
     use_stdin : Flags.use_stdin,
     use_stderr : Flags.use_stderr,
     config_suffix : Suffixes,
     kw : [output_regex : Opt(Regexes), severity_map : Opt(Maps),
           diff_severity : Opt(Severities), diff_message : Opt(Messages),
           timeout : Opt(Others)]]

\* every combination of valid and invalid arguments
CtorArgs ==
    ArgsOver([provides_correction |-> BOOLEAN, use_stdin |-> BOOLEAN,
              use_stderr |-> BOOLEAN],
             {<<>>, <<".", "c">>},
             {RxPlain, RxSeverity, RxInvalid},
             {CustomSeverityMap, NotADict},
             {PyInt(RESULT_SEVERITY.MAJOR), PyInt(5)},
             {PyStr(S_fix), PyInt(0)},
             {PyInt(1)})
GeneralTexts == {<<>>, S_error, <<"X">> \o S_note \o <<"\n">>}
GeneralFiles == {<<>>, << <<"b", "\n">> >>}

\* pattern-mode adapters reading stdout
PatternArgs ==
    ArgsOver([provides_correction |-> {FALSE}, use_stdin |-> {FALSE},
              use_stderr |-> {FALSE}],
             {<<>>},
             {RxPlain, RxSeverity, RxLine},
             {CustomSeverityMap},
             {}, {}, {})
PatternWords == {S_error, S_note, <<"2">>, <<":">>, <<"X">>, <<"\n">>}
PatternTexts == Texts(PatternWords, MaxWords)

\* diff-mode adapters reading stdout
DiffArgs ==
    ArgsOver([provides_correction |-> {TRUE}, use_stdin |-> BOOLEAN,
              use_stderr |-> {FALSE}],
             {<<>>},
             {}, {},
             {PyInt(RESULT_SEVERITY.MAJOR)},
             {},
             {})
DiffWords == {<<"a", "\n">>, <<"b", "\n">>, <<"a">>}
DiffTexts == Texts(DiffWords, MaxLines)
\* the files as the caller read them, line ends kept
DiffFiles == {SplitLines(t) : t \in DiffTexts}

Next ==
    \/ Construct(CtorArgs)
    \/ CreateConfig(GeneralFiles, ConfigContents)
    \/ CreateArguments
    \/ ExecuteFails
    \/ ExecuteCommand(GeneralTexts, GeneralTexts)
    \/ NextResult

Spec == Init /\ [][Next]_vars

NextPattern ==
    \/ Construct(PatternArgs)
    \/ CreateConfig({<<>>}, ConfigContents)
    \/ CreateArguments
    \/ ExecuteFails
    \/ ExecuteCommand(PatternTexts, {<<>>})
    \/ NextResult

SpecPattern == Init /\ [][NextPattern]_vars

NextDiff ==
    \/ Construct(DiffArgs)
    \/ CreateConfig(DiffFiles, ConfigContents)
    \/ CreateArguments
    \/ ExecuteFails
    \/ ExecuteCommand(DiffTexts, {<<>>})
    \/ NextResult

SpecDiff == Init /\ [][NextDiff]_vars

---------------------------------------------------------------------------
(* Properties. *)

PatternMode == pc # "start" /\ ~args.provides_correction
DiffMode == pc # "start" /\ args.provides_correction
Returned == pc \in {"run_returned", "consumed", "gen_raised"}
Finished == pc \in {"consumed", "gen_raised"}

\* the text of the stream the adapter was built to read
SelectedText == IF args.use_stderr THEN stderr ELSE stdout

\* the non-overlapping left-to-right matches of output_regex in the selected text
Matches == FindIter(args.kw.output_regex[1], SelectedText)

\* the match the generator was converting when it raised
FailedMatch == Matches[Len(results) + 1]

DigitsOnly(v) == v.t # "str" \/ (v.s # <<>> /\ \A i \in 1..Len(v.s) : v.s[i] \in Digits)
NumericGroupsOk(m) ==
    \A g \in {"line", "column", "end_line", "end_column"} \cap DOMAIN m.groups :
        DigitsOnly(m.groups[g])

\* C1: in pattern mode, once the returned sequence has been consumed to its
\* end, it has yielded exactly one Result per match of output_regex in the
\* selected text, in match order (the i-th Result carries the i-th match's
\* message), and the consumption did not raise.
C1_OneResultPerMatch ==
    (PatternMode /\ Finished) =>
        /\ pc = "consumed"
        /\ Len(results) = Len(Matches)
        /\ \A i \in 1..Len(results) :
              results[i].message = Get(Matches[i].groups, "message", PyStr(<<>>))

\* C3: in pattern mode, when output_regex declares no severity group and no
\* severity_map was supplied, every match is converted (the generator does
\* not raise) and every Result has severity NORMAL.
C3_NoSeverityGroupIsNormal ==
    (PatternMode /\ Returned
        /\ "severity" \notin GroupIndex(args.kw.output_regex[1].items)
        /\ args.kw.severity_map = <<>>) =>
        /\ pc # "gen_raised"
        /\ \A i \in 1..Len(results) : results[i].severity = RESULT_SEVERITY.NORMAL

\* the severity the claim gives a captured label under the sealed map
ResolvedSeverity(label) ==
    IF label \in DOMAIN options.severity_map[1].map
    THEN options.severity_map[1].map[label]
    ELSE RESULT_SEVERITY.NORMAL

\* C4: in pattern mode with a severity group, a Result's severity is the
\* value the severity map gives the captured label, and NORMAL when the label
\* is no key of the map; a label that is no key of the map does not make the
\* conversion raise.
C4_SeverityResolved ==
    (PatternMode /\ Returned
        /\ "severity" \in GroupIndex(args.kw.output_regex[1].items)) =>
        /\ \A i \in 1..Len(results) :
              Matches[i].groups["severity"].t = "str" =>
                 results[i].severity = ResolvedSeverity(Matches[i].groups["severity"].s)
        /\ pc = "gen_raised" =>
              ~(/\ FailedMatch.groups["severity"].t = "str"
                /\ FailedMatch.groups["severity"].s \notin DOMAIN options.severity_map[1].map
                /\ NumericGroupsOk(FailedMatch))

\* C5: the sealed options keep the config_suffix string given to Linter(),
\* whatever the flags are, and every temporary config file has that suffix.
C5_ConfigSuffixRetained ==
    (pc \notin {"start", "ctor_failed"}) =>
        /\ options.config_suffix = <<PyStr(args.config_suffix)>>
        /\ \A t \in tmpfiles : t.suffix = args.config_suffix

\* the origin text a match captured, if any
CapturedOrigin(m) == Get(m.groups, "origin", PyNone)

\* C6: a Result's origin is "<name> (<origin>)" exactly when its match
\* captured an origin text, and the adapter itself (shown as its name alone)
\* when the pattern declares no origin group or the group took no part in the
\* match.
C6_OriginComposed ==
    (PatternMode /\ Returned) =>
        \A i \in 1..Len(results) :
            results[i].origin =
                IF CapturedOrigin(Matches[i]).t = "str"
                THEN PyStr(KlassName \o <<" ", "(">> \o CapturedOrigin(Matches[i]).s
                           \o <<")">>)
                ELSE PySelf

\* the option keys a call supplies outside its mode's allowed set
Supplied(a) == {k \in DOMAIN a.kw : Len(a.kw[k]) > 0}
Offending(a) ==
    Supplied(a) \ (IF a.provides_correction THEN {"diff_severity", "diff_message"}
                   ELSE {"output_regex", "severity_map"})

\* the options of the call's own mode are acceptable by themselves
ModeOptionsValid(a) ==
    IF a.provides_correction
    THEN /\ a.kw.diff_severity \in Opt({PyInt(v) : v \in SeverityValues})
         /\ (a.kw.diff_message = <<>> \/ a.kw.diff_message[1].t = "str")
    ELSE /\ a.kw.output_regex # <<>>
         /\ a.kw.output_regex[1].valid
         /\ \/ a.kw.severity_map = <<>>
            \/ /\ a.kw.severity_map[1].isdict
               /\ "severity" \in GroupIndex(a.kw.output_regex[1].items)

\* C7 as stated: a call supplying a key outside its mode's allowed set fails
\* with a ValueError naming such a key.
C7_RejectedNamingKey ==
    (pc # "start" /\ Offending(args) # {}) =>
        /\ pc = "ctor_failed"
        /\ error.type = "ValueError"
        /\ error.key \in Offending(args)

\* C7 amended: a call supplying a key outside its mode's allowed set always
\* fails and produces no adapter; the failure is the ValueError naming such a
\* key whenever the options of the call's own mode are valid by themselves
\* (otherwise the earlier validation's error is raised first).
C7_RejectedBeforeSealing ==
    (pc # "start" /\ Offending(args) # {}) =>
        /\ pc = "ctor_failed"
        /\ options = EmptyOptions
        /\ error.type # ""
        /\ ModeOptionsValid(args) =>
              (error.type = "ValueError" /\ error.key \in Offending(args))

C7_Witness ==
    /\ pc = "ctor_failed"
    /\ args.provides_correction
    /\ args.kw.output_regex # <<>>
    /\ error = Raise("ValueError", "output_regex")

\* the default the documentation states
DocumentedSeverityMap ==
    Dict(S_error :> 2 @@ S_warning :> 1 @@ S_info :> 0)

\* C8: after a successful pattern-mode construction the options hold a
\* severity map exactly when output_regex declares a severity group; the map
\* is the supplied one, or the default when none was supplied; a severity_map
\* supplied with a pattern lacking the group fails with ValueError.
C8_SeverityMapSealed ==
    PatternMode =>
        /\ pc # "ctor_failed" =>
              /\ Has(options, "severity_map")
                    <=> "severity" \in GroupIndex(args.kw.output_regex[1].items)
              /\ Has(options, "severity_map") =>
                    options.severity_map[1] =
                        IF args.kw.severity_map # <<>> THEN args.kw.severity_map[1]
                        ELSE DocumentedSeverityMap
        /\ (/\ args.kw.severity_map # <<>>
            /\ args.kw.output_regex # <<>>
            /\ args.kw.output_regex[1].valid
            /\ "severity" \notin GroupIndex(args.kw.output_regex[1].items)) =>
              (pc = "ctor_failed" /\ error.type = "ValueError")

C8_Witness ==
    /\ pc = "sealed"
    /\ ~args.provides_correction
    /\ args.kw.severity_map = <<>>
    /\ options.severity_map = <<DocumentedSeverityMap>>

\* C9: in every invocation a temporary config file is created exactly when
\* generate_config returned a value; it exists with that content while
\* create_arguments and the command run; run() raises only from
\* create_arguments or from starting the process; and no temporary file is
\* left once run() has returned or raised.
C9_ConfigFileLifecycle ==
    (pc \notin {"start", "sealed", "ctor_failed"}) =>
        /\ (config_file # <<>>) <=> (content # <<>>)
        /\ (pc \in {"in_with", "args_built"} /\ content # <<>>) =>
              \E t \in tmpfiles : t.path = config_file[1] /\ t.content = content[1]
        /\ pc = "run_raised" => error.type \in {"Exception", "OSError"}
        /\ pc \in {"run_raised", "run_returned", "consumed", "gen_raised"} =>
              tmpfiles = {}

RECURSIVE Consume(_, _, _)
\* what consuming a generator over `items` to its end gives: the Results
\* yielded and the exception that ended it, if any
Consume(o, items, acc) ==
    IF items = <<>> THEN [results |-> acc, exc |-> ""]
    ELSE LET r == YieldResult(o, Head(items), Filename)
         IN  IF r.ok THEN Consume(o, Tail(items), Append(acc, r.result))
             ELSE [results |-> acc, exc |-> r.exc]

\* the diagnostics of an invocation whose command wrote `out` and `err`
Diagnostics(o, out, err, f) ==
    Consume(o, ProcessOutput(o, GrabOutput(o, out, err), Filename, f), <<>>)

IsPrefix(p, q) == Len(p) <= Len(q) /\ p = SubSeq(q, 1, Len(p))

\* C10: what an invocation yields is what any invocation of the same adapter
\* on the same file yields whose command wrote the same text to the selected
\* stream (stderr with use_stderr, else stdout), whatever it wrote to the
\* other stream and whatever its exit status; run() does not raise once the
\* command has exited, whatever the exit status.
C10_OnlySelectedStream ==
    /\ Returned =>
          \A so \in GeneralTexts : \A se \in GeneralTexts :
              (IF args.use_stderr THEN se = stderr ELSE so = stdout) =>
                  LET d == Diagnostics(options, so, se, file)
                  IN  /\ IsPrefix(results, d.results)
                      /\ pc = "consumed" => (results = d.results /\ d.exc = "")
                      /\ pc = "gen_raised" =>
                            (results = d.results /\ d.exc = error.type)
    /\ exit_status # -1 => Returned

C10_Witness ==
    /\ pc = "consumed"
    /\ args.use_stderr
    /\ exit_status = 1
    /\ stdout = <<>>
    /\ Len(results) > 0

\* the patches attached to the Results, in the order emitted
Patches == [i \in 1..Len(results) |-> results[i].diffs[1]]

RECURSIVE ApplyPatches(_, _, _)
\* `lines` after applying the patches ps one after the other; shift is how
\* far the patches applied so far have moved the lines behind them
ApplyPatches(lines, ps, shift) ==
    IF ps = <<>> THEN lines
    ELSE LET p == Head(ps)
             at == p.start + shift
         IN  ApplyPatches(SubSeq(lines, 1, at - 1) \o p.repl
                             \o SubSeq(lines, at + p.dels, Len(lines)),
                          Tail(ps), shift + Len(p.repl) - p.dels)

\* C2: in diff mode, once the returned sequence has been consumed, applying
\* the Results' patches in the order emitted to `file` gives
\* output.splitlines(keepends=True); each patch changes something, and
\* consecutive patches are separated by at least one line of `file` that
\* neither touches (one Result per maximal run of changed lines).
C2_RoundTrip ==
    (DiffMode /\ pc = "consumed") =>
        /\ ApplyPatches(file, Patches, 0) = SplitLines(output)
        /\ \A i \in 1..Len(results) :
              /\ Len(results[i].diffs) = 1
              /\ Patches[i].dels > 0 \/ Patches[i].repl # <<>>
              /\ Patches[i].start \in 1..(Len(file) + 1)
              /\ Patches[i].start + Patches[i].dels <= Len(file) + 1
              /\ SubSeq(file, Patches[i].start, Patches[i].start + Patches[i].dels - 1)
                    # Patches[i].repl
        /\ \A i \in 1..(Len(results) - 1) :
              Patches[i].start + Patches[i].dels < Patches[i + 1].start

C2_Witness ==
    /\ DiffMode
    /\ pc = "consumed"
    /\ Len(results) = 2
    /\ Patches[1].dels = 0
    /\ Patches[2].repl = <<>>

============================================================================
